---- MODULE Spec2Model ----
(***************************************************************************)
(* Model of the omnisensor_433 transmitter firmware (omni.ino) and of the  *)
(* rtl_433 receive-side decoder omni_decode (listed in README.md).         *)
(*                                                                         *)
(* Three specifications share the variables below:                         *)
(*   SpecCodec  - pack_msg / unpack_msg applied to inputs drawn from       *)
(*                bounded sets, with optional single-bit corruption;       *)
(*   Spec       - the firmware: setup(), then loop() step by step;         *)
(*   SpecDecode - omni_decode applied to capture buffers.                  *)
(* Integers keep the width the C++ code gives them: uint8_t values are     *)
(* reduced modulo 256, uint16_t modulo 65536, int is 32 bits wide.         *)
(***************************************************************************)
EXTENDS Integers, Sequences, FiniteSets, TLC

VARIABLES
    pc,          \* position of the running program (firmware or harness)
    args,        \* the eight values handed to pack_msg
    msg,         \* uint8_t msg[10], indexed 0..9
    out,         \* the eight values unpack_msg writes through its references
    cmdList,     \* ISM_Device::cmdList[400], indexed 0..399
    listEnd,     \* ISM_Device::listEnd (uint16_t)
    maxIdx,      \* highest cmdList index written by the last make_wave, -1 if none
    pidx,        \* playback's loop variable i
    elapsed,     \* microseconds delayed so far by the running playback
    pulses,      \* HIGH writes made so far by the running playback
    tx,          \* level of the TX pin
    led,         \* level of the LED pin
    haveBME,     \* global haveBME
    first,       \* global first
    count,       \* global count
    signals,     \* ISM_Device::signals of the global om: the timing table in use
    gotReading,  \* loop's local gotReading
    bitbuffer,   \* the capture handed to omni_decode: a sequence of rows
    ret,         \* omni_decode's return value
    data,        \* the record handed to decoder_output_data, or NoData
    ndata,       \* number of decoder_output_data calls made by the last decode
    stage,       \* the last step the last decode reached
    omni_fields  \* r_device omni .fields

vars == <<pc, args, msg, out, cmdList, listEnd, maxIdx, pidx, elapsed, pulses, tx, led,
          haveBME, first, count, signals, gotReading, bitbuffer, ret, data, ndata, stage, omni_fields>>

codecVars    == <<args, msg, out>>
waveVars     == <<cmdList, listEnd, maxIdx, pidx, elapsed, pulses>>
pinVars      == <<tx, led>>
globalVars   == <<haveBME, first, count, signals, gotReading>>
decoderVars  == <<bitbuffer, ret, data, ndata, stage, omni_fields>>

-----------------------------------------------------------------------------
(* C integer arithmetic                                                    *)

\* A 32-bit value (int, int32_t or uint32_t) is held as the integer its bit
\* pattern denotes in two's complement, -2^31 .. 2^31 - 1; the operators
\* below act on that pattern.  With floor division and a non-negative
\* remainder, x \div 2 and x % 2 are the pattern shifted right and its low bit.

Bit(x, k) == (x \div 2 ^ k) % 2

\* f as an explicit table of its values (the same function)
Table(f) == f @@ << >>

AndBit(x, y) == x * y
OrBit(x, y)  == IF x + y > 0 THEN 1 ELSE 0
XorBit(x, y) == (x + y) % 2

\* the operator op ("&", "|" or "^") on two bits
BitOp(op, x, y) ==
    CASE op = "&" -> AndBit(x, y)
      [] op = "|" -> OrBit(x, y)
      [] op = "^" -> XorBit(x, y)

\* op applied to each of the four bits of two nibbles, for every pair
Nibbles(op) ==
    Table([p \in (0 .. 15) \X (0 .. 15) |->
               BitOp(op, Bit(p[1], 0), Bit(p[2], 0))
             + 2 * BitOp(op, Bit(p[1], 1), Bit(p[2], 1))
             + 4 * BitOp(op, Bit(p[1], 2), Bit(p[2], 2))
             + 8 * BitOp(op, Bit(p[1], 3), Bit(p[2], 3))])

AndNibbles == Nibbles("&")
OrNibbles  == Nibbles("|")
XorNibbles == Nibbles("^")

\* the operation tabulated in T applied to the 8, 16 or 32 bits of a and b
Bits8(T, a, b) == 16 * T[<<a \div 16, b \div 16>>] + T[<<a % 16, b % 16>>]

Bits16(T, a, b) ==
    Bits8(T, a % 256, b % 256) + 256 * Bits8(T, a \div 256, b \div 256)

Bits32(T, a, b) ==
    LET top == Bits8(T, (a \div 16777216) % 256, (b \div 16777216) % 256)
    IN    Bits16(T, a % 65536, b % 65536)
        + 65536 * Bits8(T, (a \div 65536) % 256, (b \div 65536) % 256)
        + 16777216 * (IF top >= 128 THEN top - 256 ELSE top)

\* the bits above the operands' width are zero in both, and stay zero under
\* &, | and ^: narrow operands need only their own bits worked out
Bitwise(T, a, b) ==
    IF a \in 0 .. 255 /\ b \in 0 .. 255 THEN Bits8(T, a, b)
    ELSE IF a \in 0 .. 65535 /\ b \in 0 .. 65535 THEN Bits16(T, a, b)
    ELSE Bits32(T, a, b)

\* the C operators &, | and ^ on int operands
And(a, b) == Bitwise(AndNibbles, a, b)
Or(a, b)  == Bitwise(OrNibbles, a, b)
Xor(a, b) == Bitwise(XorNibbles, a, b)

\* x << n in 32 bits: the bits shifted past bit 31 are lost and bit 31 - n of
\* x becomes the sign
Shl(x, n) ==
    IF n = 0 THEN x
    ELSE LET h  == 2 ^ (31 - n)
             lo == x % h
         IN  IF (x \div h) % 2 = 1 THEN (lo - h) * 2 ^ n ELSE lo * 2 ^ n

\* x >> n of a signed 32-bit value: an arithmetic shift in the builds this
\* code targets (gcc)
Shr(x, n) == x \div 2 ^ n

\* conversions to the fixed-width types
U8(x)  == x % 256
U16(x) == x % 65536
S16(x) == IF x % 65536 >= 32768 THEN (x % 65536) - 65536 ELSE x % 65536

-----------------------------------------------------------------------------
(* libcrc8: table-driven CRC-8, polynomial 0x97                            *)

CRC8POLY == 151

\* one entry of a CRC-8 table: eight shift-and-xor steps, most significant
\* bit first
RECURSIVE crc8_table_entry(_, _, _)
crc8_table_entry(remainder, poly, steps) ==
    IF steps = 0 THEN remainder
    ELSE crc8_table_entry(IF remainder >= 128
                          THEN Xor((2 * remainder) % 256, poly)
                          ELSE (2 * remainder) % 256,
                          poly, steps - 1)

\* CRC8Table made for the polynomial 0x07
CRC8Table_poly_07 == [i \in 1 .. 256 |-> crc8_table_entry(i - 1, 7, 8)]

CRC8Table == <<
       0, 151, 185, 46, 229, 114, 92, 203, 93, 202, 228, 115, 184, 47, 1, 150,
       186, 45, 3, 148, 95, 200, 230, 113, 231, 112, 94, 201, 2, 149, 187, 44,
       227, 116, 90, 205, 6, 145, 191, 40, 190, 41, 7, 144, 91, 204, 226, 117,
       89, 206, 224, 119, 188, 43, 5, 146, 4, 147, 189, 42, 225, 118, 88, 207,
       81, 198, 232, 127, 180, 35, 13, 154, 12, 155, 181, 34, 233, 126, 80, 199,
       235, 124, 82, 197, 14, 153, 183, 32, 182, 33, 15, 152, 83, 196, 234, 125,
       178, 37, 11, 156, 87, 192, 238, 121, 239, 120, 86, 193, 10, 157, 179, 36,
       8, 159, 177, 38, 237, 122, 84, 195, 85, 194, 236, 123, 176, 39, 9, 158,
       162, 53, 27, 140, 71, 208, 254, 105, 255, 104, 70, 209, 26, 141, 163, 52,
       24, 143, 161, 54, 253, 106, 68, 211, 69, 210, 252, 107, 160, 55, 25, 142,
       65, 214, 248, 111, 164, 51, 29, 138, 28, 139, 165, 50, 249, 110, 64, 215,
       251, 108, 66, 213, 30, 137, 167, 48, 166, 49, 31, 136, 67, 212, 250, 109,
       243, 100, 74, 221, 22, 129, 175, 56, 174, 57, 23, 128, 75, 220, 242, 101,
       73, 222, 240, 103, 172, 59, 21, 130, 20, 131, 173, 58, 241, 102, 72, 223,
       16, 135, 169, 62, 245, 98, 76, 219, 77, 218, 244, 99, 168, 63, 17, 134,
       170, 61, 19, 132, 79, 216, 246, 97, 247, 96, 78, 217, 18, 133, 171, 60 >>

\* while (lengthOfMsg-- > 0) init = CRC8Table[init ^ *msg++];
\* crc8_from(m, lengthOfMsg, init, k) is the loop entered with k bytes
\* consumed, lengthOfMsg still to go and remainder init (a uint8_t)
RECURSIVE crc8_from(_, _, _, _)
crc8_from(m, lengthOfMsg, init, k) ==
    IF lengthOfMsg <= 0 THEN init
    ELSE LET next == CRC8Table[U8(Xor(init, m[k])) + 1]
         IN  IF next \in 0 .. 255
             THEN crc8_from(m, lengthOfMsg - 1, next, k + 1)
             ELSE next

crc8(m, lengthOfMsg, init) == crc8_from(m, lengthOfMsg, init, 0)

-----------------------------------------------------------------------------
(* omni::pack_msg, omni::unpack_msg                                        *)

\* pack_byte2 with the outdoor nibble masked by 0xff instead of 0x0f
pack_byte2_mask_ff(iTemp, oTemp) ==
    U8(Or(And(Shl(iTemp, 4), 240), And(Shr(oTemp, 8), 255)))

\* msg[2] = ((iTemp << 4) & 0xf0) | ((oTemp >> 8) & 0x0f);
pack_byte2(iTemp, oTemp) ==
    U8(Or(And(Shl(iTemp, 4), 240), And(Shr(oTemp, 8), 15)))

\* pack_crc with the initial remainder 0xaa of the Omni00 notes
pack_crc_init_aa(m) == crc8(m, 9, 170)

\* msg[9] = crc8(msg, 9, 0x00);
pack_crc(m) == crc8(m, 9, 0)

\* pack_byte0 without the two masks
pack_byte0_unmasked(fmt, id) == U8(Or(Shl(fmt, 4), id))

\* msg[0] = (fmt & 0x0f) << 4 | (id & 0x0f);
pack_byte0(fmt, id) == U8(Or(Shl(And(fmt, 15), 4), And(id, 15)))

pack_msg(fmt, id, iTemp, oTemp, iHum, oHum, press, volts) ==
    LET m0 == pack_byte0(fmt, id)
        m1 == U8(And(Shr(iTemp, 4), 255))
        m2 == pack_byte2(iTemp, oTemp)
        m3 == U8(And(oTemp, 255))
        m4 == U8(And(iHum, 255))
        m5 == U8(And(oHum, 255))
        m6 == U8(And(Shr(press, 8), 255))
        m7 == U8(And(press, 255))
        m8 == U8(And(volts, 255))
        m  == (0 :> m0) @@ (1 :> m1) @@ (2 :> m2) @@ (3 :> m3) @@ (4 :> m4)
                @@ (5 :> m5) @@ (6 :> m6) @@ (7 :> m7) @@ (8 :> m8)
    IN  m @@ (9 :> pack_crc(m))

Fields(fmt, id, iTemp, oTemp, iHum, oHum, press, volts) ==
    [fmt |-> fmt, id |-> id, iTemp |-> iTemp, oTemp |-> oTemp,
     iHum |-> iHum, oHum |-> oHum, press |-> press, volts |-> volts]

\* unpack_crc_ok comparing the low four bits only
unpack_crc_ok_low_nibble(m) == m[9] % 16 = crc8(m, 9, 0) % 16

\* the CRC test at the head of unpack_msg
unpack_crc_ok(m) == m[9] = crc8(m, 9, 0)

unpack_msg(m) ==
    IF ~unpack_crc_ok(m)
    THEN Fields(0, 0, 0, 0, 0, 0, 0, 0)
    ELSE Fields(U8(Shr(m[0], 4)),
                U8(And(m[0], 15)),
                S16(Shr(S16(Or(Shl(m[1], 8), m[2])), 4)),
                S16(Shr(S16(Or(Shl(m[2], 12), Shl(m[3], 4))), 4)),
                m[4],
                m[5],
                U16(Or(U16(Shl(m[6], 8)), m[7])),
                m[8])

-----------------------------------------------------------------------------
(* Values the variables not in use by a specification rest at              *)

Unset == Fields(-1, -1, -4096, -4096, -1, -1, -1, -1)
NoMsg == [k \in 0 .. 9 |-> 0]

\* SIGNAL_T
NONE         == -1
SIG_SYNC     == 0
SIG_SYNC_GAP == 1
SIG_ZERO     == 2
SIG_ONE      == 3
SIG_IM_GAP   == 4
SIG_PULSE    == 5

CmdListSize == 400
REPEATS     == 4

\* omni_decode's return values: the three failure codes of rtl_433's
\* decoder.h, kept symbolic, and 1; NotRun before the first call
DECODE_ABORT_LENGTH == "DECODE_ABORT_LENGTH"
DECODE_FAIL_MIC     == "DECODE_FAIL_MIC"
DECODE_FAIL_SANITY  == "DECODE_FAIL_SANITY"
DecodeOne           == "1"
NotRun              == "not run"
NoData              == [model |-> "none"]

\* omni_signals with a longer gap after the pulse of SIG_ONE
omni_signals_one_long ==
    [sig \in SIG_SYNC .. SIG_PULSE |->
        CASE sig = SIG_SYNC     -> [up_time |-> 600, delay_time |-> 600]
          [] sig = SIG_SYNC_GAP -> [up_time |-> 200, delay_time |-> 800]
          [] sig = SIG_ZERO     -> [up_time |-> 400, delay_time |-> 200]
          [] sig = SIG_ONE      -> [up_time |-> 200, delay_time |-> 800]
          [] sig = SIG_IM_GAP   -> [up_time |-> 0,   delay_time |-> 1250]
          [] sig = SIG_PULSE    -> [up_time |-> 0,   delay_time |-> 0]]

\* omni_signals with the durations of SIG_ZERO and SIG_ONE exchanged
omni_signals_bits_swapped ==
    [sig \in SIG_SYNC .. SIG_PULSE |->
        CASE sig = SIG_SYNC     -> [up_time |-> 600, delay_time |-> 600]
          [] sig = SIG_SYNC_GAP -> [up_time |-> 200, delay_time |-> 800]
          [] sig = SIG_ZERO     -> [up_time |-> 200, delay_time |-> 400]
          [] sig = SIG_ONE      -> [up_time |-> 400, delay_time |-> 200]
          [] sig = SIG_IM_GAP   -> [up_time |-> 0,   delay_time |-> 1250]
          [] sig = SIG_PULSE    -> [up_time |-> 0,   delay_time |-> 0]]

\* omni::omni_signals: <<up_time, delay_time>> in microseconds, indexed by
\* SIGNAL_T
omni_signals ==
    [sig \in SIG_SYNC .. SIG_PULSE |->
        CASE sig = SIG_SYNC     -> [up_time |-> 600, delay_time |-> 600]
          [] sig = SIG_SYNC_GAP -> [up_time |-> 200, delay_time |-> 800]
          [] sig = SIG_ZERO     -> [up_time |-> 400, delay_time |-> 200]
          [] sig = SIG_ONE      -> [up_time |-> 200, delay_time |-> 400]
          [] sig = SIG_IM_GAP   -> [up_time |-> 0,   delay_time |-> 1250]
          [] sig = SIG_PULSE    -> [up_time |-> 0,   delay_time |-> 0]]

\* omni::omni_signals of the firmware variant in part_000: the durations
\* shortened or lengthened by 24 or 28 microseconds around the same nominal
\* values
omni_signals_part_000 ==
    [sig \in SIG_SYNC .. SIG_PULSE |->
        CASE sig = SIG_SYNC     -> [up_time |-> 576, delay_time |-> 628]
          [] sig = SIG_SYNC_GAP -> [up_time |-> 176, delay_time |-> 828]
          [] sig = SIG_ZERO     -> [up_time |-> 376, delay_time |-> 228]
          [] sig = SIG_ONE      -> [up_time |-> 176, delay_time |-> 428]
          [] sig = SIG_IM_GAP   -> [up_time |-> 0,   delay_time |-> 1250]
          [] sig = SIG_PULSE    -> [up_time |-> 0,   delay_time |-> 0]]

\* om is a global object: its storage is zero-filled before the constructor
\* runs, so cmdList starts as 400 copies of SIG_SYNC (0) and listEnd as 0.
InitDevice ==
    /\ cmdList = [k \in 0 .. (CmdListSize - 1) |-> SIG_SYNC]
    /\ listEnd = 0
    /\ maxIdx = -1
    /\ pidx = 0
    /\ elapsed = 0
    /\ pulses = 0

InitDecoder ==
    /\ bitbuffer = << >>
    /\ ret = NotRun
    /\ data = NoData
    /\ ndata = 0
    /\ stage = "none"
    /\ omni_fields = "output_fields_00"

\* om's constructor links signals to omni_signals
InitGlobals ==
    /\ haveBME = FALSE
    /\ first = TRUE
    /\ count = 0
    /\ signals = omni_signals
    /\ gotReading = FALSE

-----------------------------------------------------------------------------
(* SpecCodec: pack_msg and unpack_msg on bounded inputs                    *)

\* every combination of the extreme values of the eight fields
ArgsBoundary ==
    { Fields(f, i, t1, t2, h1, h2, p, v) :
        f \in {0, 15}, i \in {0, 15},
        t1 \in {-2048, -1, 0, 2047}, t2 \in {-2048, -1, 0, 2047},
        h1 \in {0, 255}, h2 \in {0, 255}, p \in {0, 65535}, v \in {0, 255} }

\* readings of the kind the firmware transmits, and alternating bit patterns
ArgsTypical ==
    { Fields(f, 9, t1, t2, h1, 50, p, v) :
        f \in {0, 1, 7},
        t1 \in {224, 1365, -1366}, t2 \in {215, 1, -1366},
        h1 \in {45, 170}, p \in {10037, 43690}, v \in {188, 85} }

ArgSet == ArgsBoundary \cup ArgsTypical

\* arguments outside the ranges of the packet's fields: fmt and id above 15
\* (uint8_t), temperatures outside -2048 .. 2047 (int16_t), each beside
\* values inside the range
ArgsWide ==
    { Fields(f, i, t1, t2, 45, 50, 10037, 188) :
        f \in {1, 16, 19, 255}, i \in {9, 16, 41, 255},
        t1 \in {-32768, -2049, -1366, 224, 2048, 4095, 4660, 32767},
        t2 \in {-32768, -2049, -1, 0, 2048, 4095, 4660, 32767} }
    \cup
    { Fields(f, i, 224, 215, 45, 50, 10037, 188) :
        f \in 0 .. 255, i \in {0, 15, 16, 41, 240, 255} }

PacketBits == 80

\* msg with bit i (0 = most significant bit of msg[0]) inverted
FlipBit(m, i) ==
    [m EXCEPT ![i \div 8] = Xor(m[i \div 8], 2 ^ (7 - (i % 8)))]

PackArgs(a) ==
    pack_msg(a.fmt, a.id, a.iTemp, a.oTemp, a.iHum, a.oHum, a.press, a.volts)

\* packets whose two-bit damage is explored
ArgsTwoFlips ==
    { Fields(0, 0, 0, 0, 0, 0, 0, 0),
      Fields(15, 15, -2048, 2047, 255, 255, 65535, 255),
      Fields(1, 9, 224, 215, 45, 50, 10037, 188),
      Fields(7, 9, -1366, -1366, 170, 50, 43690, 85) }

\* ten bytes as unpack_msg may be handed them, built by no pack_msg: every
\* value of each of the bytes 0..8 among bytes all 0x00 or all 0xa5, with
\* msg[9] = 0
RawMsgs ==
    { Table([j \in 0 .. 9 |-> IF j = k THEN i ELSE IF j = 9 THEN 0 ELSE fill]) :
        i \in 0 .. 255, k \in 0 .. 8, fill \in {0, 165} }

InitCodec ==
    /\ \/ pc = "c_args" /\ args \in ArgSet /\ msg = NoMsg
       \/ pc = "c_wide" /\ args \in ArgsWide /\ msg = NoMsg
       \/ pc = "c_raw" /\ args = Unset /\ msg \in RawMsgs
    /\ out = Unset
    /\ tx = 0
    /\ led = 0
    /\ InitDevice
    /\ InitGlobals
    /\ InitDecoder

CodecPack ==
    /\ pc \in {"c_args", "c_wide"}
    /\ msg' = PackArgs(args)
    /\ pc' = IF pc = "c_args" THEN "c_packed" ELSE "c_wide_packed"
    /\ UNCHANGED <<args, out, waveVars, pinVars, globalVars, decoderVars>>

\* one bit of the packet is inverted between pack_msg and unpack_msg
CodecCorrupt ==
    /\ pc = "c_packed"
    /\ \E i \in 0 .. (PacketBits - 1) : msg' = FlipBit(msg, i)
    /\ pc' = "c_corrupt"
    /\ UNCHANGED <<args, out, waveVars, pinVars, globalVars, decoderVars>>

\* a second, different bit of the packet is inverted
CodecCorruptAgain ==
    /\ pc = "c_corrupt"
    /\ args \in ArgsTwoFlips
    /\ \E m \in {PackArgs(args)}, j \in 0 .. (PacketBits - 1) :
          /\ FlipBit(msg, j) # m
          /\ msg' = FlipBit(msg, j)
    /\ pc' = "c_corrupt2"
    /\ UNCHANGED <<args, out, waveVars, pinVars, globalVars, decoderVars>>

CodecUnpack ==
    /\ pc \in {"c_packed", "c_corrupt", "c_wide_packed", "c_raw"}
    /\ out' = unpack_msg(msg)
    /\ pc' = CASE pc = "c_packed" -> "c_unpacked"
               [] pc = "c_corrupt" -> "c_unpacked_corrupt"
               [] pc = "c_raw" -> "c_raw_unpacked"
               [] OTHER -> "c_wide_unpacked"
    /\ UNCHANGED <<args, msg, waveVars, pinVars, globalVars, decoderVars>>

NextCodec == CodecPack \/ CodecCorrupt \/ CodecCorruptAgain \/ CodecUnpack

SpecCodec == InitCodec /\ [][NextCodec]_vars

-----------------------------------------------------------------------------
(* ISM_Device and omni: the command list and the timing table              *)

\* The device as make_wave sees it: d.cmdList, d.listEnd, and d.maxIdx, the
\* highest index stored to.  A store at an index outside 0..399 lands
\* outside the array and leaves cmdList itself as it was.
Store(d, idx, signal) ==
    [cmdList |-> IF idx \in 0 .. (CmdListSize - 1)
                 THEN [d.cmdList EXCEPT ![idx] = signal]
                 ELSE d.cmdList,
     listEnd |-> d.listEnd,
     maxIdx  |-> IF idx > d.maxIdx THEN idx ELSE d.maxIdx]

\* cmdList[listEnd++] = signal; executed once for each element of sigs, in
\* order: element n of sigs is stored at index listEnd + n - 1
insert(d, sigs) ==
    [cmdList |-> [k \in 0 .. (CmdListSize - 1) |->
                    IF k >= d.listEnd /\ k < d.listEnd + Len(sigs)
                    THEN sigs[k - d.listEnd + 1]
                    ELSE d.cmdList[k]],
     listEnd |-> U16(d.listEnd + Len(sigs)),
     maxIdx  |-> IF Len(sigs) > 0 /\ d.listEnd + Len(sigs) - 1 > d.maxIdx
                 THEN d.listEnd + Len(sigs) - 1
                 ELSE d.maxIdx]

\* wave_preamble one SIG_SYNC short
wave_preamble_short == [i \in 1 .. 3 |-> SIG_SYNC]

\* for (uint8_t i = 0; i < 4; i++) insert(SIG_SYNC);
wave_preamble == [i \in 1 .. 4 |-> SIG_SYNC]

\* wave_bit taking the bits of each byte from the low end
wave_bit_lsb_first(m, i) ==
    IF U8(And(Shr(m[i \div 8], i % 8), 1)) = 0 THEN SIG_ZERO ELSE SIG_ONE

\* the symbol make_wave inserts for bit i of the packet
wave_bit(m, i) ==
    IF U8(And(Shr(m[i \div 8], 7 - (i % 8)), 1)) = 0 THEN SIG_ZERO ELSE SIG_ONE

\* for (uint8_t i = 0; i < msgLen; i++) insert(bit i ? SIG_ONE : SIG_ZERO);
wave_packet(m, msgLen) == [n \in 1 .. msgLen |-> wave_bit(m, n - 1)]

\* for (uint8_t j = 0; j < REPEATS; j++) { preamble; packet }
RECURSIVE wave_repeats(_, _, _, _)
wave_repeats(d, m, msgLen, j) ==
    IF j < REPEATS
    THEN wave_repeats(insert(insert(d, wave_preamble), wave_packet(m, msgLen)),
                      m, msgLen, U8(j + 1))
    ELSE d

\* make_wave without the insert(SIG_IM_GAP)
make_wave_no_gap(d, m, msgLen) ==
    LET d0 == [d EXCEPT !.listEnd = 0, !.maxIdx = -1]
        d1 == wave_repeats(d0, m, msgLen, 0)
    IN  Store(d1, d1.listEnd, NONE)

\* make_wave without listEnd = 0: the symbols go after those already listed
make_wave_appending(d, m, msgLen) ==
    LET d0 == [d EXCEPT !.maxIdx = -1]
        d1 == wave_repeats(d0, m, msgLen, 0)
        d2 == insert(d1, <<SIG_IM_GAP>>)
    IN  Store(d2, d2.listEnd, NONE)

make_wave(d, m, msgLen) ==
    LET d0 == [d EXCEPT !.listEnd = 0, !.maxIdx = -1]
        d1 == wave_repeats(d0, m, msgLen, 0)
        d2 == insert(d1, <<SIG_IM_GAP>>)
    IN  Store(d2, d2.listEnd, NONE)

-----------------------------------------------------------------------------
(* Spec: the firmware, setup() then loop() for ever                        *)

\* number of loop() iterations explored
MaxCount == 2

omniLen == 80

\* Sensor readings.  Floating-point readings are held as scaled integers:
\* temperatures in hundredths of a degree C, humidity in tenths of a percent,
\* pressure in Pa, the VSYS reading as the raw 12-bit ADC count.
BmeTemperature == {2329, -530}
CoreTemperature == {2150, -1240}
BmeHumidity == {450, 0}
BmePressure == {100370}
VsysCount == {2019, 1450}

\* (integer)x for a real x = n / d, d > 0: truncation toward zero
Trunc(n, d) == IF n >= 0 THEN n \div d ELSE -((-n) \div d)

\* (uint16_t)x for a floating x whose integer part is v.  A negative v is
\* outside the range of the target type: the conversion is undefined, and
\* the builds produce either 0 (a saturating convert instruction) or the
\* value of a signed conversion reduced modulo 2^16.
F2U16(v) == IF v >= 0 THEN {U16(v)} ELSE {0, U16(v)}

\* itemp = (uint16_t)((bme.temperature + 0.05 + BME_TEMP_OFFSET) * 10)
\* with BME_TEMP_OFFSET = -1.7 / 1.8 = -17/18
bme_itemp(t100) == { S16(u) : u \in F2U16(Trunc(9 * (t100 + 5) - 850, 90)) }

\* (uint16_t)((analogReadTemp() + 0.05) * 10.0) stored in an int16_t
core_temp(t100) == { S16(u) : u \in F2U16(Trunc(t100 + 5, 10)) }

\* ihum = (uint16_t)((bme.humidity + 0.5) * 10.0) stored in a uint8_t
bme_ihum(h10) == { U8(u) : u \in F2U16(h10 + 5) }

\* press = (uint16_t)(bme.pressure / 10.0)
bme_press(pa) == F2U16(Trunc(pa, 10))

\* volts = (uint8_t)(100.0 * (analogRead(VSYSPin) / RES * 3.0 * 3.3 - 3.0) + 0.5)
\* = (1980 * adc - 2453504) / 8192
vsys_volts(adc) == U8(Trunc(1980 * adc - 2453504, 8192))

Init ==
    /\ pc = "setup"
    /\ args = Unset
    /\ msg = NoMsg
    /\ out = Unset
    /\ tx \in {0, 1}
    /\ led \in {0, 1}
    /\ InitDevice
    /\ InitGlobals
    /\ InitDecoder

\* Setup without digitalWrite(TX, LOW)
Setup_no_tx_low ==
    /\ pc = "setup"
    /\ led' = 0
    /\ haveBME' \in BOOLEAN
    /\ pc' = "loop"
    /\ UNCHANGED <<codecVars, waveVars, tx, first, count, signals, gotReading, decoderVars>>

\* setup(): both pins driven low, then the sensor is probed
Setup ==
    /\ pc = "setup"
    /\ tx' = 0
    /\ led' = 0
    /\ haveBME' \in BOOLEAN
    /\ pc' = "loop"
    /\ UNCHANGED <<codecVars, waveVars, first, count, signals, gotReading, decoderVars>>

\* loop_fmt0_args with ohum = 50 as in the other branch
loop_fmt0_args_ohum_50(itemp, volts) == Fields(0, 9, itemp, 0, 0, 50, 0, volts)

\* the else branch of if (gotReading): fmt = 0, id = 9, itemp,
\* otemp = ihum = ohum = press = 0, volts
loop_fmt0_args(itemp, volts) == Fields(0, 9, itemp, 0, 0, 0, 0, volts)

\* loop(), from its entry to the end of the if (gotReading) ... else ...
LoopRead ==
    /\ pc = "loop"
    /\ count < MaxCount
    /\ gotReading' \in (IF haveBME THEN BOOLEAN ELSE {FALSE})
    /\ IF gotReading'
         THEN \E t \in BmeTemperature, c \in CoreTemperature, h \in BmeHumidity,
                 p \in BmePressure, a \in VsysCount :
                \E it \in bme_itemp(t), ot \in core_temp(c), ih \in bme_ihum(h),
                   pr \in bme_press(p) :
                   args' = Fields(1, 9, it, ot, ih, 50, pr, vsys_volts(a))
         ELSE \E c \in CoreTemperature, a \in VsysCount :
                \E it \in core_temp(c) :
                   args' = loop_fmt0_args(it, vsys_volts(a))
    /\ msg' = NoMsg
    /\ pc' = "pack"
    /\ UNCHANGED <<out, waveVars, pinVars, haveBME, first, count, signals, decoderVars>>

\* om.pack_msg(fmt, id, itemp, otemp, ihum, ohum, press, volts, msg);
LoopPack ==
    /\ pc = "pack"
    /\ msg' = PackArgs(args)
    /\ pc' = "make_wave"
    /\ UNCHANGED <<args, out, waveVars, pinVars, globalVars, decoderVars>>

\* om.make_wave(msg, omniLen);
LoopMakeWave ==
    /\ pc = "make_wave"
    /\ LET d == make_wave([cmdList |-> cmdList, listEnd |-> listEnd, maxIdx |-> maxIdx],
                          msg, omniLen)
       IN  /\ cmdList' = d.cmdList
           /\ listEnd' = d.listEnd
           /\ maxIdx' = d.maxIdx
    /\ pc' = "led_on"
    /\ UNCHANGED <<codecVars, pidx, elapsed, pulses, pinVars, globalVars, decoderVars>>

\* digitalWrite(LED, HIGH); and the entry of om.playback()
LoopLedOn ==
    /\ pc = "led_on"
    /\ led' = 1
    /\ pidx' = 0
    /\ elapsed' = 0
    /\ pulses' = 0
    /\ pc' = "pb_fetch"
    /\ UNCHANGED <<codecVars, cmdList, listEnd, maxIdx, tx, globalVars, decoderVars>>

\* PlaybackFetch without the test for NONE
PlaybackFetch_no_sentinel ==
    /\ pc = "pb_fetch"
    /\ IF pidx < listEnd THEN pc' = "pb_up" ELSE pc' = "led_off"
    /\ UNCHANGED <<codecVars, waveVars, pinVars, globalVars, decoderVars>>

\* playback(): the loop test, sig = cmdList[i] and the test for NONE
PlaybackFetch ==
    /\ pc = "pb_fetch"
    /\ IF pidx < listEnd
       THEN IF cmdList[pidx] = NONE THEN pc' = "led_off" ELSE pc' = "pb_up"
       ELSE pc' = "led_off"
    /\ UNCHANGED <<codecVars, waveVars, pinVars, globalVars, decoderVars>>

\* PlaybackUp writing HIGH whatever up_time is
PlaybackUp_always_high ==
    /\ pc = "pb_up"
    /\ tx' = 1
    /\ elapsed' = elapsed + signals[cmdList[pidx]].up_time
    /\ pulses' = pulses + 1
    /\ pc' = "pb_down"
    /\ UNCHANGED <<codecVars, cmdList, listEnd, maxIdx, pidx, led, globalVars, decoderVars>>

\* playback(): if (signals[sig].up_time > 0) { HIGH; delay }
PlaybackUp ==
    /\ pc = "pb_up"
    /\ LET t == signals[cmdList[pidx]].up_time
       IN  IF t > 0
           THEN /\ tx' = 1
                /\ elapsed' = elapsed + t
                /\ pulses' = pulses + 1
           ELSE UNCHANGED <<tx, elapsed, pulses>>
    /\ pc' = "pb_down"
    /\ UNCHANGED <<codecVars, cmdList, listEnd, maxIdx, pidx, led, globalVars, decoderVars>>

\* PlaybackDown stepping i by two
PlaybackDown_step_two ==
    /\ pc = "pb_down"
    /\ LET t == signals[cmdList[pidx]].delay_time
       IN  IF t > 0
           THEN /\ tx' = 0
                /\ elapsed' = elapsed + t
           ELSE UNCHANGED <<tx, elapsed>>
    /\ pidx' = pidx + 2
    /\ pc' = "pb_fetch"
    /\ UNCHANGED <<codecVars, cmdList, listEnd, maxIdx, pulses, led, globalVars, decoderVars>>

\* playback(): if (signals[sig].delay_time > 0) { LOW; delay }, then i++
PlaybackDown ==
    /\ pc = "pb_down"
    /\ LET t == signals[cmdList[pidx]].delay_time
       IN  IF t > 0
           THEN /\ tx' = 0
                /\ elapsed' = elapsed + t
           ELSE UNCHANGED <<tx, elapsed>>
    /\ pidx' = pidx + 1
    /\ pc' = "pb_fetch"
    /\ UNCHANGED <<codecVars, cmdList, listEnd, maxIdx, pulses, led, globalVars, decoderVars>>

\* digitalWrite(LED, LOW);
LoopLedOff ==
    /\ pc = "led_off"
    /\ led' = 0
    /\ pc' = "tx_low"
    /\ UNCHANGED <<codecVars, waveVars, tx, globalVars, decoderVars>>

\* digitalWrite(TX, LOW);
LoopTxLow ==
    /\ pc = "tx_low"
    /\ tx' = 0
    /\ pc' = "unpack"
    /\ UNCHANGED <<codecVars, waveVars, led, globalVars, decoderVars>>

\* om.unpack_msg(msg, fmt, id, itemp, otemp, ihum, ohum, press, volts);
LoopUnpack ==
    /\ pc = "unpack"
    /\ out' = unpack_msg(msg)
    /\ pc' = "report"
    /\ UNCHANGED <<args, msg, waveVars, pinVars, globalVars, decoderVars>>

\* the report on the serial port (++count), first = false, delay(DELAY);
\* loop() returns and its locals (msg, fmt, id, itemp, ...) cease to exist
LoopEnd ==
    /\ pc = "report"
    /\ count' = count + 1
    /\ first' = FALSE
    /\ args' = Unset
    /\ msg' = NoMsg
    /\ out' = Unset
    /\ gotReading' = FALSE
    /\ pc' = "loop"
    /\ UNCHANGED <<waveVars, pinVars, haveBME, signals, decoderVars>>

Next ==
    \/ Setup
    \/ LoopRead
    \/ LoopPack
    \/ LoopMakeWave
    \/ LoopLedOn
    \/ PlaybackFetch
    \/ PlaybackUp
    \/ PlaybackDown
    \/ LoopLedOff
    \/ LoopTxLow
    \/ LoopUnpack
    \/ LoopEnd

Spec == Init /\ [][Next]_vars

-----------------------------------------------------------------------------
(* SpecWave: make_wave and playback called on their own                    *)

\* make_wave's msgLen is a uint8_t: 0 .. 255
MaxMsgLen == 2 ^ 8 - 1

\* the bytes make_wave reads of msg for the longest msgLen
WaveBufLen == (MaxMsgLen + 7) \div 8

\* message buffers long enough for every msgLen
WaveBuffers ==
    { Table([k \in 0 .. (WaveBufLen - 1) |-> 0]),
      Table([k \in 0 .. (WaveBufLen - 1) |-> (37 * k + 25) % 256]) }

\* the longest command list built symbol by symbol
MaxListLen == 3

\* command lists of any values of SIGNAL_T, NONE included
SymbolLists ==
    UNION { [1 .. n -> NONE .. SIG_PULSE] : n \in 0 .. MaxListLen }

\* The device is linked to the timing table of omni.ino or to the table of
\* the variant in part_000; the line is at either level.
InitWave ==
    /\ pc = "w_idle"
    /\ args = Unset
    /\ msg = NoMsg
    /\ out = Unset
    /\ tx \in {0, 1}
    /\ led = 0
    /\ InitDevice
    /\ haveBME = FALSE
    /\ first = TRUE
    /\ count = 0
    /\ signals \in {omni_signals, omni_signals_part_000}
    /\ gotReading = FALSE
    /\ InitDecoder

\* make_wave(msg, msgLen) for any msgLen.  The stores go to rising indices;
\* the first store at an index past the end of cmdList has undefined
\* behaviour, and the model follows make_wave no further than that store:
\* at "w_overrun" cmdList holds what was stored below index 400 and listEnd
\* and maxIdx hold the index of the store being made.
WaveMake ==
    /\ pc = "w_idle"
    /\ \E m \in WaveBuffers, msgLen \in 0 .. MaxMsgLen :
         \E d \in {make_wave([cmdList |-> cmdList, listEnd |-> listEnd, maxIdx |-> maxIdx],
                             m, msgLen)} :
            /\ msg' = m
            /\ cmdList' = d.cmdList
            /\ IF d.maxIdx < CmdListSize
               THEN /\ listEnd' = d.listEnd
                    /\ maxIdx' = d.maxIdx
                    /\ pc' = "w_made"
               ELSE /\ listEnd' = CmdListSize
                    /\ maxIdx' = CmdListSize
                    /\ pc' = "w_overrun"
    /\ UNCHANGED <<args, out, pidx, elapsed, pulses, pinVars, globalVars, decoderVars>>

\* listEnd = 0; insert(...) for each symbol of a list; cmdList[listEnd] = NONE;
\* as make_wave does, for a list of any symbols
WaveInsert ==
    /\ pc = "w_idle"
    /\ \E sigs \in SymbolLists :
         \E d \in {insert([cmdList |-> cmdList, listEnd |-> 0, maxIdx |-> -1], sigs)} :
            \E e \in {Store(d, d.listEnd, NONE)} :
               /\ cmdList' = e.cmdList
               /\ listEnd' = e.listEnd
               /\ maxIdx' = e.maxIdx
    /\ pc' = "w_list"
    /\ UNCHANGED <<codecVars, pidx, elapsed, pulses, pinVars, globalVars, decoderVars>>

\* the entry of playback() on the list just built
WavePlay ==
    /\ pc = "w_list"
    /\ pidx' = 0
    /\ elapsed' = 0
    /\ pulses' = 0
    /\ pc' = "pb_fetch"
    /\ UNCHANGED <<codecVars, cmdList, listEnd, maxIdx, pinVars, globalVars, decoderVars>>

\* playback() returns at "led_off"
NextWave ==
    \/ WaveMake
    \/ WaveInsert
    \/ WavePlay
    \/ PlaybackFetch
    \/ PlaybackUp
    \/ PlaybackDown

SpecWave == InitWave /\ [][NextWave]_vars

-----------------------------------------------------------------------------
(* The receive side: rtl_433's bitbuffer and crc8, and omni_decode          *)

\* A row of the bitbuffer is [bits_per_row, bb]: its bit count and its bytes
\* bb[0], bb[1], ..., most significant bit first, zero beyond the last bit.
\* A bitbuffer is the sequence of its rows; row r of the C code is bits[r + 1].
RowBytes == 11

\* rtl_433 bitbuffer_compare_rows with max_diff = 0: same bit count and the
\* same bytes over (bits + 7) / 8 bytes
bitbuffer_compare_rows(bits, row_a, row_b) ==
    /\ bits[row_a + 1].bits_per_row = bits[row_b + 1].bits_per_row
    /\ \A k \in 0 .. ((bits[row_a + 1].bits_per_row + 7) \div 8 - 1) :
          bits[row_a + 1].bb[k] = bits[row_b + 1].bb[k]

\* rtl_433 bitbuffer_count_repeats: the rows equal to row, row itself included
bitbuffer_count_repeats(bits, row) ==
    Cardinality({ i \in 0 .. (Len(bits) - 1) : bitbuffer_compare_rows(bits, row, i) })

\* rtl_433 bitbuffer_find_repeated_row: the first row of at least min_bits
\* bits that occurs at least min_repeats times, or -1
bitbuffer_find_repeated_row(bits, min_repeats, min_bits) ==
    LET found == { i \in 0 .. (Len(bits) - 1) :
                     /\ bits[i + 1].bits_per_row >= min_bits
                     /\ bitbuffer_count_repeats(bits, i) >= min_repeats }
    IN  IF found = {} THEN -1
        ELSE CHOOSE i \in found : \A k \in found : i <= k

\* rtl_433 crc8, one pass of the inner loop: one shift-and-xor step, most
\* significant bit first
rtl_crc8_shift(remainder, polynomial) ==
    IF And(remainder, 128) # 0
    THEN U8(Xor(Shl(remainder, 1), polynomial))
    ELSE U8(Shl(remainder, 1))

\* rtl_433 crc8, the inner loop: eight passes
rtl_crc8_bits(remainder, polynomial) ==
    LET r1 == rtl_crc8_shift(remainder, polynomial)
        r2 == rtl_crc8_shift(r1, polynomial)
        r3 == rtl_crc8_shift(r2, polynomial)
        r4 == rtl_crc8_shift(r3, polynomial)
        r5 == rtl_crc8_shift(r4, polynomial)
        r6 == rtl_crc8_shift(r5, polynomial)
        r7 == rtl_crc8_shift(r6, polynomial)
    IN  rtl_crc8_shift(r7, polynomial)

\* rtl_433 crc8, the outer loop entered at byte with the given remainder
\* (a uint8_t)
RECURSIVE rtl_crc8_from(_, _, _, _, _)
rtl_crc8_from(message, nBytes, polynomial, remainder, byte) ==
    IF byte >= nBytes THEN remainder
    ELSE LET next == rtl_crc8_bits(U8(Xor(remainder, message[byte])), polynomial)
         IN  IF next \in 0 .. 255
             THEN rtl_crc8_from(message, nBytes, polynomial, next, byte + 1)
             ELSE next

\* rtl_433 crc8(message, nBytes, polynomial, init)
rtl_crc8(message, nBytes, polynomial, init) ==
    rtl_crc8_from(message, nBytes, polynomial, init, 0)

\* omni_find_row accepting a row seen once
omni_find_row_once(bits) == bitbuffer_find_repeated_row(bits, 1, 80)

\* int r = bitbuffer_find_repeated_row(bitbuffer, 2, 80);
omni_find_row(bits) == bitbuffer_find_repeated_row(bits, 2, 80)

\* omni_row_invalid without the upper length test
omni_row_invalid_no_max(bits, r) == r < 0

\* if (r < 0 || bitbuffer->bits_per_row[r] > 82) return DECODE_ABORT_LENGTH;
omni_row_invalid(bits, r) == r < 0 \/ bits[r + 1].bits_per_row > 82

\* omni_crc_fails with the initial remainder 0xaa of the Omni00 notes
omni_crc_fails_init_aa(b) == rtl_crc8(b, 9, 151, 170) # b[9]

\* omni_crc_fails with the comparison left out
omni_crc_fails_never(b) == FALSE

\* crc8(b, 9, 0x97, 0x00) != b[9]
omni_crc_fails(b) == rtl_crc8(b, 9, 151, 0) # b[9]

\* omni_itemp assembled without sign extension
omni_itemp_unsigned(b) == Or(Shl(b[1], 4), Shr(And(b[2], 240), 4))

\* omni_otemp without the cast to int32_t: the 12 bits as an unsigned value
omni_otemp_unsigned(b) == Or(Shl(And(b[2], 15), 8), b[3])

\* Decoded values are held as the integers the code divides by 10.0 or by
\* 100.0: temperatures in tenths of a degree C, pressure in tenths of a hPa,
\* the voltage b[8] / 100.0 + 3.00 in hundredths of a volt.
omni_itemp(b) == Shr(Or(Shl(b[1], 24), Shl(And(b[2], 240), 16)), 20)
omni_otemp(b) == Shr(Or(Shl(b[2], 28), Shl(b[3], 20)), 20)
omni_press(b) == Or(U16(Shl(b[6], 8)), b[7])
omni_volts(b) == b[8] + 300

\* case OMNI_MSGFMT_00: the record handed to data_make
decode_fmt00(b, message_fmt, id) ==
    [model         |-> "Omni_00",
     fmt           |-> message_fmt,
     id            |-> id,
     temperature_C |-> omni_itemp(b),
     voltage_V     |-> omni_volts(b),
     payload       |-> [ij \in 1 .. 8 |-> b[ij]],
     mic           |-> "CRC"]

\* case OMNI_MSGFMT_01: the record handed to data_make
decode_fmt01(b, message_fmt, id) ==
    [model           |-> "Omni_01",
     fmt             |-> message_fmt,
     id              |-> id,
     temperature_C   |-> omni_itemp(b),
     temperature_2_C |-> omni_otemp(b),
     humidity        |-> b[4],
     humidity_2      |-> b[5],
     pressure_hPa    |-> omni_press(b),
     voltage_V       |-> omni_volts(b),
     mic             |-> "CRC"]

\* omni_dispatch with the format 0 layout as the default case
omni_dispatch_default_00(b, message_fmt, id, fields) ==
    CASE message_fmt = 1 ->
           [ret |-> DecodeOne, data |-> decode_fmt01(b, message_fmt, id),
            ndata |-> 1, stage |-> "output", fields |-> "output_fields_01"]
      [] OTHER ->
           [ret |-> DecodeOne, data |-> decode_fmt00(b, message_fmt, id),
            ndata |-> 1, stage |-> "output", fields |-> "output_fields_00"]

\* omni_dispatch whose default case leaves the switch, so that
\* decoder_output_data is reached, and then fails
omni_dispatch_default_outputs(b, message_fmt, id, fields) ==
    CASE message_fmt = 0 ->
           [ret |-> DecodeOne, data |-> decode_fmt00(b, message_fmt, id),
            ndata |-> 1, stage |-> "output", fields |-> "output_fields_00"]
      [] message_fmt = 1 ->
           [ret |-> DecodeOne, data |-> decode_fmt01(b, message_fmt, id),
            ndata |-> 1, stage |-> "output", fields |-> "output_fields_01"]
      [] OTHER ->
           [ret |-> DECODE_FAIL_SANITY, data |-> NoData, ndata |-> 1,
            stage |-> "output", fields |-> fields]

\* omni_dispatch with omni.fields put back to output_fields_00 in the default
\* case
omni_dispatch_default_resets(b, message_fmt, id, fields) ==
    CASE message_fmt = 0 ->
           [ret |-> DecodeOne, data |-> decode_fmt00(b, message_fmt, id),
            ndata |-> 1, stage |-> "output", fields |-> "output_fields_00"]
      [] message_fmt = 1 ->
           [ret |-> DecodeOne, data |-> decode_fmt01(b, message_fmt, id),
            ndata |-> 1, stage |-> "output", fields |-> "output_fields_01"]
      [] OTHER ->
           [ret |-> DECODE_FAIL_SANITY, data |-> NoData, ndata |-> 0,
            stage |-> "dispatch", fields |-> "output_fields_00"]

\* switch (message_fmt): what omni_decode returns once the CRC has matched
omni_dispatch(b, message_fmt, id, fields) ==
    CASE message_fmt = 0 ->
           [ret |-> DecodeOne, data |-> decode_fmt00(b, message_fmt, id),
            ndata |-> 1, stage |-> "output", fields |-> "output_fields_00"]
      [] message_fmt = 1 ->
           [ret |-> DecodeOne, data |-> decode_fmt01(b, message_fmt, id),
            ndata |-> 1, stage |-> "output", fields |-> "output_fields_01"]
      [] OTHER ->
           [ret |-> DECODE_FAIL_SANITY, data |-> NoData, ndata |-> 0,
            stage |-> "dispatch", fields |-> fields]

\* omni_decode with the format looked at before the CRC is tested
omni_decode_format_first(bits, fields) ==
    LET r == omni_find_row(bits)
    IN  IF omni_row_invalid(bits, r)
        THEN [ret |-> DECODE_ABORT_LENGTH, data |-> NoData, ndata |-> 0,
              stage |-> "match", fields |-> fields]
        ELSE LET b == bits[r + 1].bb
             IN  IF Shr(b[0], 4) \notin {0, 1}
                 THEN [ret |-> DECODE_FAIL_SANITY, data |-> NoData, ndata |-> 0,
                       stage |-> "dispatch", fields |-> fields]
                 ELSE IF omni_crc_fails(b)
                 THEN [ret |-> DECODE_FAIL_MIC, data |-> NoData, ndata |-> 0,
                       stage |-> "crc", fields |-> fields]
                 ELSE omni_dispatch(b, Shr(b[0], 4), And(b[0], 15), fields)

\* omni_decode: what one call returns (ret), what it hands to
\* decoder_output_data (data, ndata calls), the last step it reached (stage)
\* and the value it leaves in omni.fields
omni_decode(bits, fields) ==
    LET r == omni_find_row(bits)
    IN  IF omni_row_invalid(bits, r)
        THEN [ret |-> DECODE_ABORT_LENGTH, data |-> NoData, ndata |-> 0,
              stage |-> "match", fields |-> fields]
        ELSE LET b == bits[r + 1].bb
             IN  IF omni_crc_fails(b)
                 THEN [ret |-> DECODE_FAIL_MIC, data |-> NoData, ndata |-> 0,
                       stage |-> "crc", fields |-> fields]
                 ELSE omni_dispatch(b, Shr(b[0], 4), And(b[0], 15), fields)

-----------------------------------------------------------------------------
(* SpecDecode: omni_decode on capture buffers                              *)

\* the row a demodulator delivers for the n leading bits of packet m followed
\* by the bits of tail (the byte after the packet), n <= 88
Row(m, n, tail) ==
    [bits_per_row |-> n,
     bb |-> Table([k \in 0 .. (RowBytes - 1) |->
               LET byte == IF k <= 9 THEN m[k] ELSE tail
                   keep == n - 8 * k
               IN  IF keep >= 8 THEN byte
                   ELSE IF keep <= 0 THEN 0
                   ELSE byte - (byte % 2 ^ (8 - keep))])]

Row80(m) == Row(m, 80, 0)

\* the example packet of the Omni00 README: 09 0E 00 D7 2D 32 27 35 BC 91
ReadmePacket ==
    [k \in 0 .. 9 |-> CASE k = 0 -> 9   [] k = 1 -> 14  [] k = 2 -> 0  [] k = 3 -> 215
                        [] k = 4 -> 45  [] k = 5 -> 50  [] k = 6 -> 39 [] k = 7 -> 53
                        [] k = 8 -> 188 [] k = 9 -> 145]

\* packets the firmware can send, and one of each kind of stray row
PacketV0 == PackArgs(Fields(0, 9, 224, 0, 0, 0, 0, 188))
PacketV1 == PackArgs(Fields(1, 3, -53, -1366, 45, 50, 10037, 85))
PacketU7 == PackArgs(Fields(7, 9, 224, 215, 45, 50, 10037, 188))

RowPool ==
    { Row80(PacketV0), Row80(PacketV1), Row(PacketV1, 82, 192), Row80(PacketU7),
      Row80(ReadmePacket), Row(PacketV0, 83, 160), Row(PacketV0, 79, 0),
      Row(PacketV1, 81, 128) }

\* the longest capture assembled from RowPool
MaxRows == 4

RECURSIVE SeqsUpTo(_, _)
SeqsUpTo(S, n) ==
    IF n = 0 THEN { << >> }
    ELSE LET shorter == SeqsUpTo(S, n - 1)
         IN  shorter \cup { Append(q, x) : q \in { t \in shorter : Len(t) = n - 1 }, x \in S }

\* the packets of the bursts and of the damaged bursts
BurstArgs ==
    { Fields(f, 9, t1, t2, 45, 50, 10037, 188) :
        f \in 0 .. 15, t1 \in {224, -1366}, t2 \in {215, -53} }
    \cup { Fields(0, 0, 0, 0, 0, 0, 0, 0) }

MismatchArgs ==
    { Fields(f, 9, t1, 215, 45, 50, 10037, 188) : f \in {0, 1, 7}, t1 \in {224, -1366} }

InitDecode ==
    /\ pc = "idle"
    /\ args = Unset
    /\ msg = NoMsg
    /\ out = Unset
    /\ tx = 0
    /\ led = 0
    /\ InitDevice
    /\ InitGlobals
    /\ InitDecoder

\* what a capture leaves alone
captureFrame ==
    <<out, waveVars, pinVars, globalVars, ret, data, ndata, stage, omni_fields>>

\* a capture of up to MaxRows rows, each a packet or a stray row
CaptureRows ==
    /\ pc = "idle"
    /\ \E rows \in SeqsUpTo(RowPool, MaxRows) : bitbuffer' = rows
    /\ args' = Unset
    /\ msg' = NoMsg
    /\ pc' = "captured"
    /\ UNCHANGED captureFrame

\* a burst received whole: REPEATS copies of the packet pack_msg built from
\* args, which stays in msg
CaptureBurst ==
    /\ pc = "idle"
    /\ \E a \in BurstArgs :
        \E m \in {PackArgs(a)} :
            /\ args' = a
            /\ msg' = m
            /\ bitbuffer' = [n \in 1 .. REPEATS |-> Row80(m)]
    /\ pc' = "captured"
    /\ UNCHANGED captureFrame

\* a burst of which two rows were received, both with the same bit inverted
CaptureDamaged ==
    /\ pc = "idle"
    /\ \E a \in BurstArgs, i \in 0 .. (PacketBits - 1) :
        \E m \in {PackArgs(a)} :
            \E bad \in {Row80(FlipBit(m, i))} :
                /\ args' = a
                /\ msg' = m
                /\ bitbuffer' = <<bad, bad>>
    /\ pc' = "captured"
    /\ UNCHANGED captureFrame

\* a burst of which two rows were received, one of them with one bit
\* inverted, alone or beside a stray row of another length
CaptureMismatch ==
    /\ pc = "idle"
    /\ \E a \in MismatchArgs, i \in 0 .. (PacketBits - 1) :
        \E m \in {PackArgs(a)} :
            \E good \in {Row80(m)}, bad \in {Row80(FlipBit(m, i))},
               stray \in { << >>, <<Row(PacketV0, 83, 160)>> } :
                \E pair \in { <<good, bad>>, <<bad, good>> } :
                    /\ args' = a
                    /\ msg' = m
                    /\ \/ bitbuffer' = stray \o pair
                       \/ bitbuffer' = pair \o stray
    /\ pc' = "captured"
    /\ UNCHANGED captureFrame

\* rtl_433 calls omni_decode on the capture
Decode ==
    /\ pc = "captured"
    /\ \E d \in {omni_decode(bitbuffer, omni_fields)} :
           /\ ret' = d.ret
           /\ data' = d.data
           /\ ndata' = d.ndata
           /\ stage' = d.stage
           /\ omni_fields' = d.fields
    /\ pc' = "decoded"
    /\ UNCHANGED <<codecVars, waveVars, pinVars, globalVars, bitbuffer>>

\* the capture is dropped; omni.fields keeps its value for the next call
Release ==
    /\ pc = "decoded"
    /\ bitbuffer' = << >>
    /\ ret' = NotRun
    /\ data' = NoData
    /\ ndata' = 0
    /\ stage' = "none"
    /\ args' = Unset
    /\ msg' = NoMsg
    /\ pc' = "idle"
    /\ UNCHANGED <<out, waveVars, pinVars, globalVars, omni_fields>>

NextDecode ==
    \/ CaptureRows
    \/ CaptureBurst
    \/ CaptureDamaged
    \/ CaptureMismatch
    \/ Decode
    \/ Release

SpecDecode == InitDecode /\ [][NextDecode]_vars

-----------------------------------------------------------------------------
(* Properties                                                              *)

\* C1 (SpecCodec): unpack_msg applied to the ten bytes pack_msg wrote returns
\* the eight values pack_msg was given, boundary values included.
C1_RoundTrip == pc = "c_unpacked" => out = args

C1_Witness ==
    /\ pc = "c_unpacked"
    /\ args = Fields(15, 15, -2048, 2047, 255, 255, 65535, 255)
    /\ out = args

\* the capture row of the Omni00 README example packet
ReadmeRow == Row80(ReadmePacket)

\* C2 (SpecDecode): a capture holding the packet 09 0e 00 d7 2d 32 27 35 bc 91
\* is accepted and decodes to fmt 0, id 9, 22.4 degrees C and 4.88 V.
C2_ReadmeAccepted ==
    ( /\ pc = "decoded"
      /\ Len(bitbuffer) >= 2
      /\ \A i \in 1 .. Len(bitbuffer) : bitbuffer[i] = ReadmeRow )
    => /\ ret = DecodeOne
       /\ data.fmt = 0
       /\ data.id = 9
       /\ data.temperature_C = 224
       /\ data.voltage_V = 488

OneBitBytes(a, b) == Xor(a, b) \in {1, 2, 4, 8, 16, 32, 64, 128}

\* packet b is packet m with one bit of bytes 0..8 inverted
DamagedCopy(m, b) ==
    /\ b[9] = m[9]
    /\ \E k \in 0 .. 8 :
          /\ OneBitBytes(m[k], b[k])
          /\ \A j \in (0 .. 8) \ {k} : b[j] = m[j]

\* C4 (SpecDecode): a packet pack_msg built, with one bit of its bytes 0..8
\* inverted, fails the CRC test, and decoding a capture of it returns
\* DECODE_FAIL_MIC and no data.
C4_SingleBitDetected ==
    ( /\ pc = "decoded"
      /\ args # Unset
      /\ Len(bitbuffer) = 2
      /\ bitbuffer[1] = bitbuffer[2]
      /\ bitbuffer[1].bits_per_row = PacketBits
      /\ DamagedCopy(msg, bitbuffer[1].bb) )
    => /\ ~unpack_crc_ok(bitbuffer[1].bb)
       /\ ret = DECODE_FAIL_MIC
       /\ data = NoData
       /\ ndata = 0

C4_Witness ==
    /\ pc = "decoded"
    /\ args = Fields(1, 9, -1366, -53, 45, 50, 10037, 188)
    /\ bitbuffer = <<Row80(FlipBit(msg, 71)), Row80(FlipBit(msg, 71))>>
    /\ ret = DECODE_FAIL_MIC

\* a reading whose eight values are all zero
ZeroReading == Fields(0, 0, 0, 0, 0, 0, 0, 0)

\* C5 (SpecCodec): what unpack_msg returns for a packet whose CRC does not
\* match differs from what it returns for the valid packet of an all-zero
\* reading.
C5_FailureDistinct ==
    (pc = "c_unpacked_corrupt" /\ ~unpack_crc_ok(msg))
    => out # unpack_msg(PackArgs(ZeroReading))

\* the rows of a capture that occur in it more than once
RepeatedRows(bits) ==
    { i \in 1 .. Len(bits) : \E j \in 1 .. Len(bits) : j # i /\ bits[j] = bits[i] }

\* the repeated 80-bit rows of a capture that hold a valid packet of format
\* 0 or 1
ValidPacketRows(bits) ==
    { i \in RepeatedRows(bits) :
        /\ bits[i].bits_per_row = PacketBits
        /\ unpack_crc_ok(bits[i].bb)
        /\ bits[i].bb[0] \div 16 \in {0, 1} }

\* the record d carries the format, the id and the fields of packet b
EmittedFrom(d, b) ==
    LET f == unpack_msg(b)
    IN  /\ d.fmt = f.fmt
        /\ d.id = f.id
        /\ d.temperature_C = f.iTemp
        /\ d.voltage_V = f.volts + 300
        /\ f.fmt = 0 => d.payload = [ij \in 1 .. 8 |-> b[ij]]
        /\ f.fmt = 1 => /\ d.temperature_2_C = f.oTemp
                        /\ d.humidity = f.iHum
                        /\ d.humidity_2 = f.oHum
                        /\ d.pressure_hPa = f.press

\* C6 as stated (SpecDecode): whenever a capture contains two identical
\* 80-bit rows holding a valid packet of format 0 or 1, whatever its other
\* rows (none of them another such packet), omni_decode succeeds and emits
\* that packet.
C6_AnyNoise ==
    ( /\ pc = "decoded"
      /\ \A i, j \in ValidPacketRows(bitbuffer) : bitbuffer[i] = bitbuffer[j] )
    => \A i \in ValidPacketRows(bitbuffer) :
           ret = DecodeOne /\ ndata = 1 /\ EmittedFrom(data, bitbuffer[i].bb)

\* C6 amended (SpecDecode): when the valid packet's row is the first row of
\* the capture that has at least 80 bits and occurs at least twice,
\* omni_decode succeeds and emits that packet.
C6_FirstRepeatedRow ==
    pc = "decoded" =>
        \A i \in ValidPacketRows(bitbuffer) :
            (\A j \in RepeatedRows(bitbuffer) :
                 j < i => bitbuffer[j].bits_per_row < PacketBits)
            => ret = DecodeOne /\ ndata = 1 /\ EmittedFrom(data, bitbuffer[i].bb)

C6_Witness ==
    /\ pc = "decoded"
    /\ bitbuffer = <<Row(PacketV0, 83, 160), ReadmeRow, Row80(PacketV1), Row80(PacketV1)>>
    /\ ret = DecodeOne
    /\ data.temperature_C = -53
    /\ data.temperature_2_C = -1366

\* the pairs of rows of a capture that have the same bit length
EqualLengthPairs(bits) ==
    { p \in (1 .. Len(bits)) \X (1 .. Len(bits)) :
        p[1] < p[2] /\ bits[p[1]].bits_per_row = bits[p[2]].bits_per_row }

\* rows a and b differ in exactly one bit
OneBitApart(a, b) ==
    \E k \in 0 .. (RowBytes - 1) :
        /\ OneBitBytes(a.bb[k], b.bb[k])
        /\ \A j \in (0 .. (RowBytes - 1)) \ {k} : a.bb[j] = b.bb[j]

\* the capture has exactly one pair of equal-length rows, one bit apart
OnePairOneBitApart(bits) ==
    \E p \in EqualLengthPairs(bits) :
        /\ EqualLengthPairs(bits) = {p}
        /\ OneBitApart(bits[p[1]], bits[p[2]])

\* C7 as stated (SpecDecode): if the only two equal-length rows of a capture
\* differ in exactly one bit, omni_decode returns DECODE_FAIL_MIC.
C7_MismatchIsChecksumError ==
    (pc = "decoded" /\ OnePairOneBitApart(bitbuffer)) => ret = DECODE_FAIL_MIC

\* C7 amended (SpecDecode): if the only two equal-length rows of a capture
\* differ in exactly one bit, omni_decode returns DECODE_ABORT_LENGTH: no row
\* is repeated, and the CRC test is not reached.
C7_MismatchIsRowNotFound ==
    (pc = "decoded" /\ OnePairOneBitApart(bitbuffer))
    => /\ ret = DECODE_ABORT_LENGTH
       /\ stage = "match"
       /\ ndata = 0

C7_Witness ==
    /\ pc = "decoded"
    /\ args = Fields(1, 9, 224, 215, 45, 50, 10037, 188)
    /\ bitbuffer = <<Row80(msg), Row80(FlipBit(msg, 12))>>
    /\ OnePairOneBitApart(bitbuffer)
    /\ ret = DECODE_ABORT_LENGTH

\* C8 (SpecDecode): omni_decode goes past row matching only when some row
\* occurs at least twice with 80 to 82 bits; with no repeated row, with only
\* repeated rows shorter than 80 bits, or with a matched row (the first
\* repeated row of at least 80 bits) longer than 82 bits, it returns
\* DECODE_ABORT_LENGTH without reaching the CRC test or emitting data.
C8_RowGate ==
    pc = "decoded" =>
        LET rep     == RepeatedRows(bitbuffer)
            long    == { i \in rep : bitbuffer[i].bits_per_row >= 80 }
            aborted == /\ ret = DECODE_ABORT_LENGTH
                       /\ stage = "match"
                       /\ ndata = 0
                       /\ data = NoData
        IN  /\ stage # "match" =>
                   \E i \in rep : bitbuffer[i].bits_per_row \in 80 .. 82
            /\ rep = {} => aborted
            /\ (\A i \in rep : bitbuffer[i].bits_per_row < 80) => aborted
            /\ (\E i \in long : /\ \A j \in long : i <= j
                                /\ bitbuffer[i].bits_per_row > 82) => aborted

C8_Witness ==
    /\ pc = "decoded"
    /\ bitbuffer = <<Row(PacketV0, 83, 160), Row80(PacketV0), Row(PacketV0, 83, 160),
                     Row80(PacketV0)>>
    /\ ret = DECODE_ABORT_LENGTH
    /\ stage = "match"

WaveMade ==
    \/ count > 0
    \/ pc \in {"led_on", "pb_fetch", "pb_up", "pb_down", "led_off", "tx_low",
               "unpack", "report"}

\* C10 (Spec): after make_wave(msg, 80) with REPEATS = 4, listEnd is 337
\* (4 x 84 + 1) and cmdList[337] is NONE, whatever the packet.
C10_SequenceLength ==
    WaveMade =>
        /\ listEnd = 337
        /\ listEnd = REPEATS * (4 + omniLen) + 1
        /\ cmdList[337] = NONE

C10_Witness ==
    /\ pc = "led_on"
    /\ msg[0] = 25
    /\ listEnd = 337
    /\ cmdList[337] = NONE
    /\ cmdList[336] = SIG_IM_GAP

\* the packet is still in msg and the command list made from it is in place:
\* make_wave has just returned, or playback has
WaveOfMsg == pc \in {"led_on", "led_off", "tx_low", "unpack", "report"}

\* C11 (Spec): after make_wave(msg, 80), for each repeat j in 0..3 the
\* symbols at 84j .. 84j+3 are SIG_SYNC and the symbol at 84j+4+i, i in
\* 0..79, is SIG_ONE when bit (7 - i mod 8) of msg[i div 8] is 1 and SIG_ZERO
\* otherwise; index 336 holds SIG_IM_GAP; the four repeats are identical.
C11_SequenceStructure ==
    WaveOfMsg =>
        /\ \A j \in 0 .. 3 :
              /\ \A k \in 0 .. 3 : cmdList[84 * j + k] = SIG_SYNC
              /\ \A i \in 0 .. 79 :
                    cmdList[84 * j + 4 + i] =
                        IF Bit(msg[i \div 8], 7 - (i % 8)) = 1 THEN SIG_ONE ELSE SIG_ZERO
              /\ \A k \in 0 .. 83 : cmdList[84 * j + k] = cmdList[k]
        /\ cmdList[336] = SIG_IM_GAP

\* a format 1 packet (msg[0] = 0x19: bits 0001 1001) has been made into a wave
C11_Witness ==
    /\ pc = "led_on"
    /\ msg[0] = 25
    /\ cmdList[4 + 2] = SIG_ZERO
    /\ cmdList[4 + 3] = SIG_ONE
    /\ cmdList[3 * 84 + 4 + 7] = SIG_ONE
    /\ \E i \in 8 .. 79 : cmdList[4 + i] = SIG_ONE

\* C12 (SpecWave): for every msgLen in 0..255 make_wave stores to no
\* command-list index at or beyond the capacity of 400.
C12_NoOverrun == maxIdx < CmdListSize

\* playback is running
InPlayback == pc \in {"pb_fetch", "pb_up", "pb_down"}

\* playback has made the high phase of its first symbol
FirstHighDone == pc = "pb_down" /\ pidx = 0

\* playback has played its first symbol and no more
FirstSymbolDone == pc = "pb_fetch" /\ pidx = 1

\* C13 as claimed (SpecWave): with the timing table playback uses, SIG_ZERO
\* is 400 us high then 200 us low, SIG_ONE 200 us high then 400 us low and
\* SIG_SYNC 600 us high then 600 us low: a data bit occupies 600 us and a
\* preamble pulse 1200 us.
C13_NominalTiming ==
    /\ FirstHighDone =>
          /\ cmdList[0] = SIG_ZERO => elapsed = 400
          /\ cmdList[0] = SIG_ONE => elapsed = 200
          /\ cmdList[0] = SIG_SYNC => elapsed = 600
    /\ FirstSymbolDone =>
          /\ cmdList[0] \in {SIG_ZERO, SIG_ONE} => elapsed = 600
          /\ cmdList[0] = SIG_SYNC => elapsed = 1200

\* C13 amended (SpecWave): with the table of omni.ino the durations are the
\* nominal ones (bit 600 us, preamble pulse 1200 us); with the table of the
\* variant in part_000 SIG_ZERO is 376 high then 228 low, SIG_ONE 176 then
\* 428 and SIG_SYNC 576 then 628: a data bit occupies 604 us and a preamble
\* pulse 1204 us.
C13_TimingByVariant ==
    LET nominal == signals = omni_signals
    IN  /\ FirstHighDone =>
              /\ cmdList[0] = SIG_ZERO => elapsed = IF nominal THEN 400 ELSE 376
              /\ cmdList[0] = SIG_ONE => elapsed = IF nominal THEN 200 ELSE 176
              /\ cmdList[0] = SIG_SYNC => elapsed = IF nominal THEN 600 ELSE 576
        /\ FirstSymbolDone =>
              /\ cmdList[0] \in {SIG_ZERO, SIG_ONE} =>
                    elapsed = IF nominal THEN 600 ELSE 604
              /\ cmdList[0] = SIG_SYNC => elapsed = IF nominal THEN 1200 ELSE 1204

\* a preamble pulse and a zero bit played with the table of part_000
C13_Witness ==
    /\ pc = "pb_fetch"
    /\ pidx = 2
    /\ cmdList[0] = SIG_SYNC
    /\ cmdList[1] = SIG_ZERO
    /\ signals = omni_signals_part_000
    /\ elapsed = 1204 + 604

\* the delays of a burst up to the end of the last data bit of the fourth
\* repeat, in microseconds
BurstBitsTime == REPEATS * (4 * 1200 + omniLen * 600)

\* C14 (Spec): once the high pulse of the last data bit of the fourth repeat
\* has been made, the line is not raised again (336 HIGH writes in all); from
\* the end of that bit the line is low and stays low for at least 1250 us
\* before playback returns, and it is low when playback returns.
C14_Postamble ==
    /\ (pc = "pb_down" /\ pidx = 335) => pulses = 336
    /\ ((InPlayback /\ pidx >= 336) \/ pc = "led_off") => (tx = 0 /\ pulses = 336)
    /\ (pc = "pb_fetch" /\ pidx = 336) => elapsed = BurstBitsTime
    /\ (pc = "pb_up" /\ pidx = 336) => cmdList[pidx] = SIG_IM_GAP
    /\ pc = "led_off" => elapsed >= BurstBitsTime + 1250

\* playback has returned from the second burst
C14_Witness ==
    /\ pc = "led_off"
    /\ count = 1
    /\ pidx = 337
    /\ tx = 0
    /\ elapsed = 212450

\* C15 (SpecWave): for each symbol played, playback writes HIGH and delays
\* up_time only if up_time > 0, then writes LOW and delays delay_time only if
\* delay_time > 0; a phase of duration 0 writes nothing to the line and
\* delays nothing, so the line stays at its previous level.
C15_PhaseEffect ==
    [][/\ pc = "pb_up" =>
            LET t == signals[cmdList[pidx]].up_time
            IN  IF t > 0
                THEN tx' = 1 /\ elapsed' = elapsed + t /\ pulses' = pulses + 1
                ELSE tx' = tx /\ elapsed' = elapsed /\ pulses' = pulses
       /\ pc = "pb_down" =>
            LET t == signals[cmdList[pidx]].delay_time
            IN  IF t > 0
                THEN tx' = 0 /\ elapsed' = elapsed + t
                ELSE tx' = tx /\ elapsed' = elapsed]_vars

\* SIG_PULSE, both durations 0, played with the line high: the line is left
\* high and no time has passed
C15_Witness ==
    /\ pc = "pb_fetch"
    /\ pidx = 1
    /\ cmdList[0] = SIG_PULSE
    /\ tx = 1
    /\ elapsed = 0
    /\ pulses = 0

\* the smaller of two integers
Min(a, b) == IF a < b THEN a ELSE b

\* C20 (Spec): on every sequence make_wave builds, playback never meets NONE
\* at an index below listEnd; it plays the symbols in index order, each one
\* once (a HIGH write for each of the 336 preamble and data symbols started,
\* none for SIG_IM_GAP); while it runs it can always take its next step, and
\* it returns through the end of its loop with all listEnd symbols played,
\* 336 high pulses made and the delays of every symbol spent.
C20_PlaybackCompletes ==
    /\ InPlayback =>
          /\ pidx \in 0 .. listEnd
          /\ pidx < listEnd => cmdList[pidx] \in SIG_SYNC .. SIG_PULSE
          /\ ENABLED (PlaybackFetch \/ PlaybackUp \/ PlaybackDown)
    /\ pc \in {"pb_fetch", "pb_up"} => pulses = Min(pidx, 336)
    /\ pc \in {"pb_up", "pb_down"} => pidx < listEnd
    /\ pc = "pb_down" => pulses = Min(pidx + 1, 336)
    /\ pc = "led_off" =>
          /\ pidx = listEnd
          /\ pulses = 336
          /\ elapsed = BurstBitsTime + 1250

\* playback has returned from the first burst, of a format 0 packet
C20_Witness ==
    /\ pc = "led_off"
    /\ count = 0
    /\ args.fmt = 0
    /\ pidx = 337
    /\ listEnd = 337
    /\ pulses = 336

\* the field lists omni.fields can point to
FieldLists == {"output_fields_00", "output_fields_01"}

C17_Truncation ==
    pc \in {"c_unpacked", "c_wide_unpacked"} =>
        /\ msg[0] = (args.fmt % 16) * 16 + (args.id % 16)
        /\ out.fmt = args.fmt % 16
        /\ out.id = args.id % 16
        /\ msg[1] = (args.iTemp \div 16) % 256
        /\ msg[2] \div 16 = args.iTemp % 16
        /\ msg[2] % 16 = (args.oTemp \div 256) % 16
        /\ msg[3] = args.oTemp % 256
        /\ out.iTemp \in -2048 .. 2047
        /\ (out.iTemp - args.iTemp) % 4096 = 0
        /\ out.oTemp \in -2048 .. 2047
        /\ (out.oTemp - args.oTemp) % 4096 = 0

\* fmt 255, id 255 and both temperatures out of range, packed and unpacked
C17_Witness ==
    /\ pc = "c_wide_unpacked"
    /\ args.fmt = 255
    /\ args.id = 255
    /\ args.iTemp = 2048
    /\ args.oTemp = -2049
    /\ out.fmt = 15
    /\ out.iTemp = -2048
    /\ out.oTemp = 2047

\* loop has packed msg and has not yet returned: the packet that is, will be
\* or has been transmitted
MsgPacked ==
    pc \in {"make_wave", "led_on", "pb_fetch", "pb_up", "pb_down", "led_off",
            "tx_low", "unpack", "report"}

\* C18 (Spec): a packet loop() transmits without a successful sensor reading
\* has fmt = 0 and the low nibble of byte 2 and bytes 3..7 all zero; a packet
\* with fmt = 1 is sent only when a reading succeeded.
C18_Fmt0ZeroFilled ==
    MsgPacked =>
        /\ ~gotReading =>
              /\ msg[0] \div 16 = 0
              /\ msg[2] % 16 = 0
              /\ \A k \in 3 .. 7 : msg[k] = 0
        /\ msg[0] \div 16 = 1 => (gotReading /\ haveBME)
        /\ msg[0] \div 16 \in {0, 1}

\* a burst is being played with a sensor present whose reading failed
C18_Witness ==
    /\ pc = "pb_up"
    /\ haveBME
    /\ ~gotReading
    /\ msg[0] = 9
    /\ msg[1] # 0
    /\ msg[8] # 0

\* C19 (SpecDecode): omni_decode tests, in this order, the row match, the
\* CRC and the format, and then decodes the fields; it ends with exactly one
\* outcome, that of the first test that fails, or success with one record
\* emitted; no later step is reached after an earlier one fails.  A repeated
\* row with a bad CRC and an unregistered format is a checksum error.
C19_PipelineOrder ==
    pc = "decoded" =>
        LET long    == { i \in RepeatedRows(bitbuffer) : bitbuffer[i].bits_per_row >= 80 }
            row     == CHOOSE i \in long : \A j \in long : i <= j
            matched == long # {} /\ bitbuffer[row].bits_per_row <= 82
            crcOk   == unpack_crc_ok(bitbuffer[row].bb)
            known   == bitbuffer[row].bb[0] \div 16 \in {0, 1}
        IN  /\ <<ret, stage>> \in { <<DECODE_ABORT_LENGTH, "match">>,
                                    <<DECODE_FAIL_MIC, "crc">>,
                                    <<DECODE_FAIL_SANITY, "dispatch">>,
                                    <<DecodeOne, "output">> }
            /\ ret = DecodeOne => (ndata = 1 /\ data # NoData)
            /\ ret # DecodeOne => (ndata = 0 /\ data = NoData)
            /\ ~matched => ret = DECODE_ABORT_LENGTH
            /\ (matched /\ ~crcOk) => ret = DECODE_FAIL_MIC
            /\ (matched /\ crcOk /\ ~known) => ret = DECODE_FAIL_SANITY
            /\ (matched /\ crcOk /\ known) => ret = DecodeOne

\* two rows of a format 7 packet with the same bit damaged: the CRC fails
\* and the format is not registered
C19_Witness ==
    /\ pc = "decoded"
    /\ Len(bitbuffer) = 2
    /\ bitbuffer[2] = bitbuffer[1]
    /\ bitbuffer[1].bits_per_row = PacketBits
    /\ bitbuffer[1].bb[0] \div 16 = 7
    /\ ~unpack_crc_ok(bitbuffer[1].bb)
    /\ ret = DECODE_FAIL_MIC
    /\ stage = "crc"

\* C21 (SpecWave): when playback meets NONE at an index below listEnd it
\* returns at once, with no line write and no delay for that element or a
\* later one; the timing table is indexed with values of SIG_SYNC ..
\* SIG_PULSE only, never with NONE.
C21_SentinelAbort ==
    [][/\ (pc = "pb_fetch" /\ pidx < listEnd /\ cmdList[pidx] = NONE) =>
             /\ pc' = "led_off"
             /\ UNCHANGED <<tx, led, elapsed, pulses, pidx, cmdList, listEnd>>
       /\ pc \in {"pb_up", "pb_down"} => cmdList[pidx] \in SIG_SYNC .. SIG_PULSE
       /\ pc = "led_off" => pc' = "led_off"]_vars

\* playback has returned at the NONE in the middle of a list of three: only
\* the first symbol was played
C21_Witness ==
    /\ pc = "led_off"
    /\ listEnd = 3
    /\ cmdList[0] = SIG_ZERO
    /\ cmdList[1] = NONE
    /\ cmdList[2] = SIG_SYNC
    /\ pidx = 1
    /\ pulses = 1
    /\ signals = omni_signals
    /\ elapsed = 600

\* the two's-complement value of 12 bits held as 0 .. 4095
TwosComplement12(raw) == IF raw >= 2048 THEN raw - 4096 ELSE raw

\* C22 (SpecCodec): for every packet the temperatures omni_decode extracts
\* are the two's-complement values of the 12 packed bits, negative values
\* included; for every packet unpack_msg accepts, its temperatures, its two
\* humidities, its pressure and its voltage byte are those omni_decode
\* extracts.
C22_SignExtension ==
    pc \in {"c_unpacked", "c_wide_unpacked", "c_unpacked_corrupt"} =>
        \E d \in {decode_fmt01(msg, 1, 0)} :
           /\ d.temperature_C = TwosComplement12(msg[1] * 16 + msg[2] \div 16)
           /\ d.temperature_2_C = TwosComplement12((msg[2] % 16) * 256 + msg[3])
           /\ unpack_crc_ok(msg) =>
                 /\ out.iTemp = d.temperature_C
                 /\ out.oTemp = d.temperature_2_C
                 /\ out.iHum = d.humidity
                 /\ out.oHum = d.humidity_2
                 /\ out.press = d.pressure_hPa
                 /\ out.volts + 300 = d.voltage_V

\* the most negative and a small negative temperature, extracted alike
C22_Witness ==
    /\ pc = "c_unpacked"
    /\ args.iTemp = -2048
    /\ args.oTemp = -1
    /\ out.iTemp = -2048
    /\ out.oTemp = -1
    /\ omni_itemp(msg) = -2048
    /\ omni_otemp(msg) = -1

\* C23 (SpecCodec): CRC8Table[i] is the remainder eight shift-and-xor steps
\* with polynomial 0x97, most significant bit first, make of i, for every
\* byte value i; the table-driven crc8(msg, 9, 0x00) of the firmware and the
\* bitwise crc8(b, 9, 0x97, 0x00) of the decoder return the same value.
C23_TableMatchesBitwise ==
    pc \in {"c_raw", "c_packed", "c_wide_packed"} =>
        /\ \A k \in 0 .. 8 :
              CRC8Table[msg[k] + 1] = rtl_crc8_bits(msg[k], CRC8POLY)
        /\ crc8(msg, 9, 0) = rtl_crc8(msg, 9, CRC8POLY, 0)

\* the last table entry, read for a byte 0xff in the middle of the message
C23_Witness ==
    /\ pc = "c_raw"
    /\ msg[4] = 255
    /\ msg[0] = 165
    /\ CRC8Table[256] = rtl_crc8_bits(255, CRC8POLY)
    /\ crc8(msg, 9, 0) = rtl_crc8(msg, 9, CRC8POLY, 0)

\* C28 (SpecCodec): a packet pack_msg built, with any two different bits of
\* its 80 inverted, fails the CRC test of unpack_msg and that of omni_decode.
C28_TwoBitsDetected ==
    pc = "c_corrupt2" => (~unpack_crc_ok(msg) /\ omni_crc_fails(msg))

\* the first and the last bit of a packet are inverted
C28_Witness ==
    /\ pc = "c_corrupt2"
    /\ args = Fields(1, 9, 224, 215, 45, 50, 10037, 188)
    /\ msg = FlipBit(FlipBit(PackArgs(args), 0), PacketBits - 1)
    /\ ~unpack_crc_ok(msg)

\* the device as its constructor leaves it: nothing listed
EmptyDevice ==
    [cmdList |-> [k \in 0 .. (CmdListSize - 1) |-> SIG_SYNC], listEnd |-> 0, maxIdx |-> -1]

\* C24 (Spec): in every loop() iteration the list that is played is the one
\* make_wave builds from that iteration's packet starting at listEnd = 0, as
\* on a device that has never transmitted: no symbol of an earlier
\* transmission is below listEnd, and the list is as long in a later
\* iteration as in the first.
C24_FreshSequence ==
    /\ WaveOfMsg =>
          \E d \in {make_wave(EmptyDevice, msg, omniLen)} :
             /\ listEnd = d.listEnd
             /\ maxIdx = d.maxIdx
             /\ \A k \in 0 .. listEnd : cmdList[k] = d.cmdList[k]
    /\ InPlayback => (listEnd = REPEATS * (4 + omniLen) + 1 /\ pidx <= listEnd)

\* the second transmission, of a format 1 packet, has been played
C24_Witness ==
    /\ pc = "led_off"
    /\ count = 1
    /\ args.fmt = 1
    /\ listEnd = 337
    /\ pidx = 337

\* relative humidity in tenths of a percent, rounded to whole percent
RoundPercent(h10) == (h10 + 5) \div 10

\* C25 (Spec): byte 4 of a format 1 packet built by loop() is the sensor's
\* relative humidity in whole percent, rounded to the nearest integer.
C25_HumidityPercent ==
    (MsgPacked /\ gotReading) => msg[4] \in { RoundPercent(h) : h \in BmeHumidity }

\* C26 (Spec): the TX line is low at the end of setup() and at the end of
\* every loop() iteration; once setup has run it is high only inside
\* playback(); the LED is on from just before playback() is entered until
\* just after it returns, and at no other time.
C26_LineDiscipline ==
    /\ pc = "loop" => (tx = 0 /\ led = 0)
    /\ (pc # "setup" /\ tx = 1) => InPlayback
    /\ pc # "setup" => (led = 1 <=> pc \in {"pb_fetch", "pb_up", "pb_down", "led_off"})

\* inside playback, between the pulse and the gap of a symbol: line high,
\* LED on
C26_Witness ==
    /\ pc = "pb_down"
    /\ pidx = 4
    /\ tx = 1
    /\ led = 1

\* C27 (SpecDecode): omni_decode makes one call of decoder_output_data when
\* it returns 1 and none when it returns DECODE_ABORT_LENGTH,
\* DECODE_FAIL_MIC or DECODE_FAIL_SANITY.
C27_OutputOnlyOnSuccess ==
    pc = "decoded" =>
        \/ ret = DecodeOne /\ ndata = 1
        \/ /\ ret \in {DECODE_ABORT_LENGTH, DECODE_FAIL_MIC, DECODE_FAIL_SANITY}
           /\ ndata = 0

\* a format 1 burst decoded: one record emitted
C27_Witness ==
    /\ pc = "decoded"
    /\ ret = DecodeOne
    /\ ndata = 1
    /\ data.model = "Omni_01"
    /\ Len(bitbuffer) = REPEATS

\* C29 (Spec): the delays playback makes for a burst built by
\* make_wave(msg, 80) add up to 4 x (4 x 1200 + 80 x 600) + 1250 = 212450 us
\* whatever the packet holds: before symbol i the delay spent is 1200 us for
\* each preamble symbol and 600 us for each data bit played so far.
C29_BurstDuration ==
    /\ pc = "pb_fetch" =>
          LET n == Min(pidx, 336)
              q == n \div 84
              r == n % 84
          IN  elapsed = 1200 * (4 * q + Min(r, 4))
                        + 600 * (80 * q + (IF r > 4 THEN r - 4 ELSE 0))
                        + (IF pidx = 337 THEN 1250 ELSE 0)
    /\ pc = "led_off" =>
          /\ elapsed = 4 * (4 * 1200 + 80 * 600) + 1250
          /\ elapsed = 212450

\* the burst of a format 1 packet with a negative temperature has been played
C29_Witness ==
    /\ pc = "led_off"
    /\ args.fmt = 1
    /\ args.iTemp < 0
    /\ elapsed = 212450

\* every row of the capture is 80 zero bits
ZeroRows(bits) ==
    \A i \in 1 .. Len(bits) :
       /\ bits[i].bits_per_row = PacketBits
       /\ \A k \in 0 .. 9 : bits[i].bb[k] = 0

====
